---------------------------- MODULE Spec2Model ----------------------------
(***************************************************************************)
(* A model of the question service of src/main.rs: the store               *)
(* (Arc<RwLock<HashMap<QuestionId, Question>>>), the two request handlers  *)
(* get_questions and add_question, the validator extract_pagination and    *)
(* the str -> usize parse it relies on.                                    *)
(*                                                                         *)
(* Every request is a task.  A task can be suspended only where the code   *)
(* awaits the lock (read().await, write().await); between two such points  *)
(* the steps of a handler are the statements of its body.  Strings whose   *)
(* characters matter (the values of query parameters) are sequences of     *)
(* one-character strings; strings that are only compared are TLA+ strings. *)
(***************************************************************************)
EXTENDS Integers, Sequences, FiniteSets, TLC

\* ------------------------------------------------------------------ bounds

\* Number of request tasks that can be in flight at the same time (Spec).
NumTasks == 2

Tasks == 1..NumTasks

\* ------------------------------------------------------------- data types

NoTags == [some |-> FALSE, val |-> <<>>]

SomeTags(v) == [some |-> TRUE, val |-> v]

\* struct Question { id, title, content, tags: Option<Vec<String>> }
Question(id, title, content, tags) ==
    [id |-> id, title |-> title, content |-> content, tags |-> tags]

qS  == Question("s", "seeded",  "seed content", SomeTags(<<"faq">>))
qA1 == Question("a", "title 1", "content 1",    NoTags)
qA2 == Question("a", "title 2", "content 2",    SomeTags(<<"x", "y">>))
qB  == Question("b", "title 1", "content 1",    SomeTags(<<>>))
qE  == Question("",  "no id",   "content 3",    NoTags)

\* The payloads the JSON body filter can hand to add_question: any value of
\* the Question schema; the id is any string, the empty one included.
ConcurrentQuestions == {qA1, qA2, qB}

AllQuestions == {qA1, qA2, qB, qE}

\* HashMap<QuestionId, Question> as a function from ids to records.
EmptyMap == [k \in {} |-> qS]

\* Store::init: the map read from questions.json.
Seed == [k \in {"s"} |-> qS]

\* ----------------------------------------------------- str::parse::<usize>

Digits == <<"0", "1", "2", "3", "4", "5", "6", "7", "8", "9">>

IsDigit(c) == \E i \in 1..10 : Digits[i] = c

DigitVal(c) == (CHOOSE i \in 1..10 : Digits[i] = c) - 1

\* usize::MAX = 2^64 - 1 on a 64-bit target, as decimal digits.
UsizeMaxDigits ==
    <<1, 8, 4, 4, 6, 7, 4, 4, 0, 7, 3, 7, 0, 9, 5, 5, 1, 6, 1, 5>>

RECURSIVE StripZeros(_)
StripZeros(s) ==
    IF s # <<>> /\ Head(s) = "0" THEN StripZeros(Tail(s)) ELSE s

RECURSIVE GreaterThanMax(_, _)
\* d, a sequence of 20 digit characters, denotes a number above usize::MAX.
GreaterThanMax(d, i) ==
    IF i > Len(d) THEN FALSE
    ELSE IF DigitVal(d[i]) > UsizeMaxDigits[i] THEN TRUE
    ELSE IF DigitVal(d[i]) < UsizeMaxDigits[i] THEN FALSE
    ELSE GreaterThanMax(d, i + 1)

\* checked_mul / checked_add fail on some prefix exactly when the number the
\* digits denote is above usize::MAX.
Overflows(d) ==
    LET z == StripZeros(d)
    IN  \/ Len(z) > Len(UsizeMaxDigits)
        \/ Len(z) = Len(UsizeMaxDigits) /\ GreaterThanMax(z, 1)

RECURSIVE Accumulate(_, _)
\* result = result * 10 + digit, left to right.
Accumulate(acc, d) ==
    IF d = <<>> THEN acc ELSE Accumulate(acc * 10 + DigitVal(Head(d)), Tail(d))

ParseOk(n) == [ok |-> TRUE, val |-> n, err |-> "None"]

ParseErr(kind) == [ok |-> FALSE, val |-> 0, err |-> kind]

\* from_str_radix(src, 10) for an unsigned type: the empty string is Empty; a
\* lone sign is InvalidDigit; one leading "+" is dropped, a leading "-" is
\* not a digit; any other non-digit is InvalidDigit; a value above
\* usize::MAX is PosOverflow.
ParseUsize(src) ==
    IF src = <<>> THEN ParseErr("Empty")
    ELSE IF Len(src) = 1 /\ src[1] \in {"+", "-"} THEN ParseErr("InvalidDigit")
    ELSE LET d == IF src[1] = "+" THEN Tail(src) ELSE src
         IN  IF \E i \in 1..Len(d) : ~IsDigit(d[i]) THEN ParseErr("InvalidDigit")
             ELSE IF Overflows(d) THEN ParseErr("PosOverflow")
             ELSE ParseOk(Accumulate(0, d))

\* ------------------------------------------------------ extract_pagination

NoError == [kind |-> "None", detail |-> "None"]

\* enum Error { ParseError(ParseIntError), MissingParameter, InvalidArgumentsOrder }
ParseError(detail) == [kind |-> "ParseError", detail |-> detail]

MissingParameter == [kind |-> "MissingParameter", detail |-> "None"]

InvalidArgumentsOrder == [kind |-> "InvalidArgumentsOrder", detail |-> "None"]

\* struct Pagination { start, end }
Pagination(start, end) == [start |-> start, end |-> end]

NoPagination == Pagination(0, 0)

PagOk(p) == [ok |-> TRUE, val |-> p, err |-> NoError]

PagErr(e) == [ok |-> FALSE, val |-> NoPagination, err |-> e]

\* params.get(key) is Some exactly for the keys of the map.
Has(params, key) == key \in DOMAIN params

\* OrderOk with the comparison turned around.
OrderOkSwapped(start, end) == start >= end

\* if end >= start
OrderOk(start, end) == end >= start

\* ParseWindow with end.parse().unwrap_or_default(): an end that does not
\* parse counts as 0.
ParseWindowLenientEnd(startStr, endStr) ==
    LET start == ParseUsize(startStr)
        end   == ParseUsize(endStr)
    IN  IF ~start.ok THEN PagErr(ParseError(start.err))
        ELSE IF end.val >= start.val
             THEN PagOk(Pagination(start.val, end.val))
             ELSE PagErr(InvalidArgumentsOrder)

\* ParseWindow with the order check as end > start.
ParseWindowStrictOrder(startStr, endStr) ==
    LET start == ParseUsize(startStr)
        end   == ParseUsize(endStr)
    IN  IF ~start.ok THEN PagErr(ParseError(start.err))
        ELSE IF ~end.ok THEN PagErr(ParseError(end.err))
        ELSE IF end.val > start.val
             THEN PagOk(Pagination(start.val, end.val))
             ELSE PagErr(InvalidArgumentsOrder)

\* The parse and order checks of extract_pagination on two present values.
ParseWindow(startStr, endStr) ==
    LET start == ParseUsize(startStr)
        end   == ParseUsize(endStr)
    IN  IF ~start.ok THEN PagErr(ParseError(start.err))
        ELSE IF ~end.ok THEN PagErr(ParseError(end.err))
        ELSE IF OrderOk(start.val, end.val)
             THEN PagOk(Pagination(start.val, end.val))
             ELSE PagErr(InvalidArgumentsOrder)

\* extract_pagination with a default for a missing key ("0" for start, "7"
\* for end) in place of the MissingParameter error.
extract_pagination_defaulting(params) ==
    ParseWindow(IF Has(params, "start") THEN params["start"] ELSE <<"0">>,
                IF Has(params, "end") THEN params["end"] ELSE <<"7">>)

extract_pagination(params) ==
    IF Has(params, "start") /\ Has(params, "end")
    THEN ParseWindow(params["start"], params["end"])
    ELSE PagErr(MissingParameter)

\* --------------------------------------------------------------- requests

\* Values of query parameters, as character sequences.
Values ==
    { <<>>, <<"0">>, <<"1">>, <<"2">>, <<"7">>,
      <<"+", "2">>, <<"-", "1">>, <<"a", "b", "c">>,
      <<"1", "8", "4", "4", "6", "7", "4", "4", "0", "7", "3", "7", "0", "9", "5", "5",
        "1", "6", "1", "6">> }

NoParams == [k \in {} |-> <<>>]

\* HashMap<String, String>: every map over a subset of keys.
ParamMaps(keys, vals) == UNION {[S -> vals] : S \in SUBSET keys}

\* The query maps warp::query() can produce: start and end absent or with any
\* value, with or without an unrelated key.
AllParams ==
    LET base == ParamMaps({"start", "end"}, Values)
    IN  base \cup {b @@ ("limit" :> <<"1", "0">>) : b \in base}

\* The query maps of the concurrent runs: no window, and a window that lies
\* within the store or reaches beyond its end as the store grows.
ConcurrentParams ==
    { NoParams, ("start" :> <<"1">>) @@ ("end" :> <<"2">>) }

NoQuestion == Question("", "", "", NoTags)

GetRequest(params) == [kind |-> "get", params |-> params, question |-> NoQuestion]

AddRequest(question) == [kind |-> "add", params |-> NoParams, question |-> question]

NoRequest == [kind |-> "none", params |-> NoParams, question |-> NoQuestion]

\* A request no handler serves: kind "put" or "delete" (a method the CORS
\* policy allows and no route matches), or "forbidden" (a cross-origin
\* request the CORS policy refuses).
OtherRequest(kind) == [kind |-> kind, params |-> NoParams, question |-> NoQuestion]

AllRequests ==
    {GetRequest(p) : p \in AllParams} \cup {AddRequest(q) : q \in AllQuestions}
        \cup {OtherRequest(k) : k \in {"put", "delete", "forbidden"}}

ConcurrentRequests ==
    {GetRequest(p) : p \in ConcurrentParams}
        \cup {AddRequest(q) : q \in ConcurrentQuestions}
        \cup {OtherRequest("put")}

\* --------------------------------------------------------------- outcomes

NoOutcome == [kind |-> "None", text |-> "", body |-> <<>>, error |-> NoError]

\* Ok(warp::reply::json(&res))
OkJson(res) == [kind |-> "Ok", text |-> "json", body |-> res, error |-> NoError]

\* Ok(warp::reply::with_status("Question added", StatusCode::OK))
OkAdded == [kind |-> "Ok", text |-> "Question added", body |-> <<>>, error |-> NoError]

\* Err(warp::reject::custom(error)), by the ? operator.
Rejected(e) == [kind |-> "Err", text |-> "", body |-> <<>>, error |-> e]

\* The task unwound in a panic: no reply is produced.
Panicked == [kind |-> "Panic", text |-> "", body |-> <<>>, error |-> NoError]

\* ----------------------------------------------------------- return_error

\* Causes a warp Rejection can carry besides a custom Error.
MethodNotAllowed == [kind |-> "MethodNotAllowed", detail |-> "None"]

CorsForbidden == [kind |-> "CorsForbidden", detail |-> "header not allowed"]

\* The cause with which the filters of main refuse a request of this kind.
RouteCause(kind) == IF kind = "forbidden" THEN CorsForbidden ELSE MethodNotAllowed

\* c is a value of enum Error: r.find::<Error>() finds it.
IsError(c) == c.kind \in {"ParseError", "MissingParameter", "InvalidArgumentsOrder"}

\* impl Display for ParseIntError
ParseIntErrorText(detail) ==
    CASE detail = "Empty" -> "cannot parse integer from empty string"
      [] detail = "InvalidDigit" -> "invalid digit found in string"
      [] detail = "PosOverflow" -> "number too large to fit in target type"
      [] OTHER -> "?"

\* impl Display for Error
ErrorText(e) ==
    CASE e.kind = "ParseError" ->
             <<"Cannot parse parameter: ", ParseIntErrorText(e.detail)>>
      [] e.kind = "MissingParameter" -> <<"Missing parameter">>
      [] e.kind = "InvalidArgumentsOrder" ->
             <<"Order of arguments is invalid. 'Start' cannot be greater than 'end'">>
      [] OTHER -> <<"?">>

\* What is sent back: a status and a body text.
Response(status, text) == [status |-> status, text |-> text]

NoResponse == Response("None", <<>>)

\* The Rejection that reaches recover when a request of this kind ended with
\* cause e: get_questions.or(add_question) tries the POST route after the GET
\* route has rejected, and combines the two rejections.
Rejection(kind, e) == IF kind = "get" THEN {e, MethodNotAllowed} ELSE {e}

\* return_error that answers a method mismatch before it looks for an Error.
return_error_method_first(r) ==
    IF MethodNotAllowed \in r
    THEN Response("NOT_FOUND", <<"Route not found">>)
    ELSE IF \E c \in r : IsError(c)
    THEN Response("RANGE_NOT_SATISFIABLE", ErrorText(CHOOSE c \in r : IsError(c)))
    ELSE IF \E c \in r : c.kind = "CorsForbidden"
    THEN Response("FORBIDDEN", <<"CORS request forbidden: ", "header not allowed">>)
    ELSE Response("NOT_FOUND", <<"Route not found">>)

\* return_error: r.find::<Error>(), then r.find::<CorsForbidden>(), then the
\* fallback.
return_error(r) ==
    IF \E c \in r : IsError(c)
    THEN Response("RANGE_NOT_SATISFIABLE", ErrorText(CHOOSE c \in r : IsError(c)))
    ELSE IF \E c \in r : c.kind = "CorsForbidden"
    THEN Response("FORBIDDEN",
                  <<"CORS request forbidden: ", (CHOOSE c \in r : c.kind = "CorsForbidden").detail>>)
    ELSE Response("NOT_FOUND", <<"Route not found">>)

\* What routes.recover(return_error) sends for what the handler returned: a
\* reply goes out as it is, a rejection goes through return_error, and a
\* panicked task sends nothing.
Recovered(kind, out) ==
    CASE out.kind = "Ok" -> Response("OK", <<out.text>>)
      [] out.kind = "Err" -> return_error(Rejection(kind, out.error))
      [] OTHER -> NoResponse

\* ------------------------------------------------------- store operations

\* MapInsert on a copy of the map (a store cloned without the Arc): the
\* shared map is left as it was.
MapInsertIntoCopy(m, key, value) == m

\* MapInsert as entry(key).or_insert(value): a present key keeps its old value.
MapInsertKeepOld(m, key, value) ==
    [k \in DOMAIN m \cup {key} |-> IF k \in DOMAIN m THEN m[k] ELSE value]

\* MapInsert into a map cleared first: only the new entry is left.
MapInsertAfterClear(m, key, value) == [k \in {key} |-> value]

\* MapInsert under the title of the record instead of the key handed in.
MapInsertUnderTitle(m, key, value) ==
    [k \in DOMAIN m \cup {value.title} |-> IF k = value.title THEN value ELSE m[k]]

\* HashMap::insert(key, value): the key maps to value, other keys are kept.
MapInsert(m, key, value) ==
    [k \in DOMAIN m \cup {key} |-> IF k = key THEN value ELSE m[k]]

\* The orders in which values() can visit the entries of m: the iteration
\* order of a HashMap is unspecified.
Orders(m) ==
    LET n == Cardinality(DOMAIN m)
    IN  {o \in [1..n -> DOMAIN m] : \A i, j \in 1..n : o[i] = o[j] => i = j}

\* values().cloned().collect() along the order o.
Collected(m, o) == [i \in 1..Len(o) |-> m[o[i]]]

\* EndIndex without its comparison: the end of the window is always res.len().
EndIndexAlwaysLen(pagination, res) == Len(res)

\* if pagination.end > res.len() { res.len() } else { pagination.end }
EndIndex(pagination, res) ==
    IF pagination.end > Len(res) THEN Len(res) ELSE pagination.end

\* &res[start..end]: panics when start > end or end > res.len().
SliceRange(res, start, end) ==
    IF start > end \/ end > Len(res)
    THEN [ok |-> FALSE, val |-> <<>>]
    ELSE [ok |-> TRUE, val |-> SubSeq(res, start + 1, end)]

\* CanRead of a lock that lets a reader in beside a writer.
CanReadDuringWrite(rs, ws) == TRUE

\* tokio RwLock: read access is granted while no task holds write access.
CanRead(rs, ws) == ws = {}

\* CanWrite of a lock that lets a writer in beside the readers.
CanWriteIgnoringReaders(rs, ws) == ws = {}

\* CanWrite of a lock that lets a writer in beside another writer.
CanWriteIgnoringWriters(rs, ws) == rs = {}

\* tokio RwLock: write access is granted while no task holds any access.
CanWrite(rs, ws) == ws = {} /\ rs = {}

\* ------------------------------------------------------------------ state

VARIABLES
    store,       \* Store.questions: the map behind the lock
    readers,     \* tasks holding read access
    writers,     \* tasks holding write access
    pc,          \* pc[t]: where task t is in its handler
    req,         \* req[t]: the request task t serves
    pagination,  \* pagination[t]: the validated window of a listing
    snap,        \* snap[t]: the Vec<Question> a listing collected
    outcome,     \* outcome[t]: what the handler returned
    response,    \* response[t]: what was last sent back on the connection of t
    inserted,    \* history: the ids add_question has inserted so far
    lastAdd,     \* history: the latest insert, and the store size before it
    lastGranted, \* history: per id, the payload of the insert granted write access last
    contended    \* history: contended[t], another insert was waiting when t was granted

hist == <<inserted, lastAdd, lastGranted, contended>>

vars == <<store, readers, writers, pc, req, pagination, snap, outcome, response,
          hist>>

NoAdd == [valid |-> FALSE, q |-> NoQuestion, before |-> 0, present |-> FALSE]

\* Windowed without the emptiness test: every listing is validated.
WindowedAlways(t) == TRUE

\* if !params.is_empty()
Windowed(t) == DOMAIN req[t].params # {}

Init ==
    /\ store = Seed
    /\ readers = {}
    /\ writers = {}
    /\ pc = [t \in Tasks |-> "idle"]
    /\ req = [t \in Tasks |-> NoRequest]
    /\ pagination = [t \in Tasks |-> NoPagination]
    /\ snap = [t \in Tasks |-> <<>>]
    /\ outcome = [t \in Tasks |-> NoOutcome]
    /\ response = [t \in Tasks |-> NoResponse]
    /\ inserted = {}
    /\ lastAdd = NoAdd
    /\ lastGranted = EmptyMap
    /\ contended = [t \in Tasks |-> FALSE]

\* The route filters of main hand request r to its handler in task t.
Dispatch(t, r) ==
    /\ pc[t] = "idle"
    /\ pc' = [pc EXCEPT ![t] = "entry"]
    /\ req' = [req EXCEPT ![t] = r]
    /\ response' = [response EXCEPT ![t] = NoResponse]
    /\ UNCHANGED <<store, readers, writers, pagination, snap, outcome, hist>>

\* get_questions up to its await: the emptiness test and extract_pagination(params)?
GetEntry(t) ==
    /\ pc[t] = "entry"
    /\ req[t].kind = "get"
    /\ IF Windowed(t)
       THEN LET p == extract_pagination(req[t].params)
            IN  IF p.ok
                THEN /\ pagination' = [pagination EXCEPT ![t] = p.val]
                     /\ pc' = [pc EXCEPT ![t] = "read_wait"]
                     /\ UNCHANGED outcome
                ELSE /\ outcome' = [outcome EXCEPT ![t] = Rejected(p.err)]
                     /\ pc' = [pc EXCEPT ![t] = "done"]
                     /\ UNCHANGED pagination
       ELSE /\ pc' = [pc EXCEPT ![t] = "read_wait"]
            /\ UNCHANGED <<pagination, outcome>>
    /\ UNCHANGED <<store, readers, writers, req, snap, response, hist>>

\* store.questions.read().await resolves.
AcquireRead(t) ==
    /\ pc[t] = "read_wait"
    /\ CanRead(readers, writers)
    /\ readers' = readers \cup {t}
    /\ pc' = [pc EXCEPT ![t] = "reading"]
    /\ UNCHANGED <<store, writers, req, pagination, snap, outcome, response, hist>>

\* Collect that takes the records out of the map instead of cloning them.
CollectDraining(t) ==
    /\ pc[t] = "reading"
    /\ \E o \in Orders(store) :
         LET res == Collected(store, o)
         IN  /\ snap' = [snap EXCEPT ![t] = res]
             /\ IF Windowed(t)
                THEN /\ pc' = [pc EXCEPT ![t] = "slice"]
                     /\ UNCHANGED outcome
                ELSE /\ pc' = [pc EXCEPT ![t] = "done"]
                     /\ outcome' = [outcome EXCEPT ![t] = OkJson(res)]
    /\ store' = EmptyMap
    /\ readers' = readers \ {t}
    /\ UNCHANGED <<writers, req, pagination, response, hist>>

\* .values().cloned().collect(), and the read guard dropped at the end of the
\* statement; without a window the collected Vec is the reply.
Collect(t) ==
    /\ pc[t] = "reading"
    /\ \E o \in Orders(store) :
         LET res == Collected(store, o)
         IN  /\ snap' = [snap EXCEPT ![t] = res]
             /\ IF Windowed(t)
                THEN /\ pc' = [pc EXCEPT ![t] = "slice"]
                     /\ UNCHANGED outcome
                ELSE /\ pc' = [pc EXCEPT ![t] = "done"]
                     /\ outcome' = [outcome EXCEPT ![t] = OkJson(res)]
    /\ readers' = readers \ {t}
    /\ UNCHANGED <<store, writers, req, pagination, response, hist>>

\* The clamp of end, the slice and the reply of the windowed branch.
Slice(t) ==
    /\ pc[t] = "slice"
    /\ LET end_index == EndIndex(pagination[t], snap[t])
           res == SliceRange(snap[t], pagination[t].start, end_index)
       IN  IF res.ok
           THEN /\ outcome' = [outcome EXCEPT ![t] = OkJson(res.val)]
                /\ pc' = [pc EXCEPT ![t] = "done"]
           ELSE /\ outcome' = [outcome EXCEPT ![t] = Panicked]
                /\ pc' = [pc EXCEPT ![t] = "panicked"]
    /\ UNCHANGED <<store, readers, writers, req, pagination, snap, response, hist>>

\* store.questions.write().await resolves.
AcquireWrite(t) ==
    /\ pc[t] = "entry"
    /\ req[t].kind = "add"
    /\ CanWrite(readers, writers)
    /\ writers' = writers \cup {t}
    /\ pc' = [pc EXCEPT ![t] = "writing"]
    /\ lastGranted' = [k \in DOMAIN lastGranted \cup {req[t].question.id} |->
                          IF k = req[t].question.id THEN req[t].question
                          ELSE lastGranted[k]]
    /\ contended' = [contended EXCEPT
                        ![t] = \E u \in Tasks \ {t} : pc[u] = "entry" /\ req[u].kind = "add"]
    /\ UNCHANGED <<store, readers, req, pagination, snap, outcome, response,
                   inserted, lastAdd>>

\* .insert(question.id.clone(), question), the write guard dropped at the end
\* of the statement, and the reply.
Insert(t) ==
    /\ pc[t] = "writing"
    /\ LET q == req[t].question
       IN  /\ store' = MapInsert(store, q.id, q)
           /\ inserted' = inserted \cup {q.id}
           /\ lastAdd' = [valid |-> TRUE, q |-> q,
                          before |-> Cardinality(DOMAIN store),
                          present |-> q.id \in DOMAIN store]
    /\ writers' = writers \ {t}
    /\ outcome' = [outcome EXCEPT ![t] = OkAdded]
    /\ pc' = [pc EXCEPT ![t] = "done"]
    /\ UNCHANGED <<readers, req, pagination, snap, response, lastGranted, contended>>

\* A request that no handler serves is rejected by the filters of main.
Unrouted(t) ==
    /\ pc[t] = "entry"
    /\ req[t].kind \notin {"get", "add"}
    /\ outcome' = [outcome EXCEPT ![t] = Rejected(RouteCause(req[t].kind))]
    /\ pc' = [pc EXCEPT ![t] = "done"]
    /\ UNCHANGED <<store, readers, writers, req, pagination, snap, response, hist>>

\* routes.recover(return_error): the reply is sent (a panicked task sends
\* none), and the task ends.
Retire(t) ==
    /\ pc[t] \in {"done", "panicked"}
    /\ response' = [response EXCEPT ![t] = Recovered(req[t].kind, outcome[t])]
    /\ pc' = [pc EXCEPT ![t] = "idle"]
    /\ req' = [req EXCEPT ![t] = NoRequest]
    /\ pagination' = [pagination EXCEPT ![t] = NoPagination]
    /\ snap' = [snap EXCEPT ![t] = <<>>]
    /\ outcome' = [outcome EXCEPT ![t] = NoOutcome]
    /\ contended' = [contended EXCEPT ![t] = FALSE]
    /\ UNCHANGED <<store, readers, writers, inserted, lastAdd, lastGranted>>

Step(t) ==
    \/ GetEntry(t)
    \/ AcquireRead(t)
    \/ Collect(t)
    \/ Slice(t)
    \/ AcquireWrite(t)
    \/ Insert(t)
    \/ Unrouted(t)
    \/ Retire(t)

\* Concurrent requests: NumTasks tasks interleave at every step.
Next ==
    \/ \E t \in Tasks, r \in ConcurrentRequests : Dispatch(t, r)
    \/ \E t \in Tasks : Step(t)

Spec == Init /\ [][Next]_vars

\* Task 1 serves any request, over every query map and every payload, while
\* task 2 serves inserts that interleave with it at every step.
NextWide ==
    \/ \E r \in AllRequests : Dispatch(1, r)
    \/ \E q \in ConcurrentQuestions : Dispatch(2, AddRequest(q))
    \/ \E t \in {1, 2} : Step(t)

SpecWide == Init /\ [][NextWide]_vars

\* ----------------------------------------------------------------- claims

Listing(t) == req[t].kind = "get"

Adding(t) == req[t].kind = "add"

Finished(t) == pc[t] \in {"done", "panicked"}

Min(a, b) == IF a < b THEN a ELSE b

\* A windowed listing that passed validation and has run to its end.
WindowServed(t) ==
    Listing(t) /\ Windowed(t) /\ Finished(t) /\ outcome[t].kind # "Err"

\* C1: a windowed listing whose parameters validate never aborts, whatever
\* the length L of its snapshot: with clamped_end = min(end, L) it replies
\* with the empty sequence when start >= clamped_end (start > L included),
\* and with L - start entries when end > L.
C1_WindowNeverAborts ==
    \A t \in Tasks :
        WindowServed(t) =>
            LET L == Len(snap[t])
                start == pagination[t].start
                clamped_end == Min(pagination[t].end, L)
            IN  /\ outcome[t].kind = "Ok"
                /\ start >= clamped_end => outcome[t].body = <<>>
                /\ (start < clamped_end /\ pagination[t].end > L)
                       => Len(outcome[t].body) = L - start

\* C2: a windowed listing with start <= end <= L, L the length of the
\* snapshot it took, replies with end - start entries, which are the entries
\* start .. end - 1 of that same snapshot, in order.
C2_WindowWithinSnapshot ==
    \A t \in Tasks :
        (WindowServed(t) /\ pagination[t].end <= Len(snap[t])) =>
            LET start == pagination[t].start
                end == pagination[t].end
                body == outcome[t].body
            IN  /\ outcome[t].kind = "Ok"
                /\ Len(body) = end - start
                /\ \A i \in 1..(end - start) : body[i] = snap[t][start + i]

\* A window strictly inside a snapshot that is older than the store: an
\* insert went through between the snapshot and the slice.
C2_Witness ==
    \E t \in Tasks :
        /\ WindowServed(t)
        /\ pagination[t].start < pagination[t].end
        /\ pagination[t].end < Len(snap[t])
        /\ pagination[t].start > 0
        /\ Len(outcome[t].body) > 0
        /\ Len(snap[t]) < Cardinality(DOMAIN store)

\* C3: the unfiltered listing that follows an insert of q, with no other
\* insert in between, holds exactly one entry with the id of q, equal to q in
\* title, content and tags; its length is the store size before the insert
\* when the id was already present, and one more otherwise.
C3_ListingAfterInsert ==
    [][\A t \in Tasks :
          (/\ pc[t] = "reading"
           /\ pc'[t] = "done"
           /\ ~Windowed(t)
           /\ lastAdd.valid) =>
              LET body == outcome'[t].body
                  hits == {i \in 1..Len(body) : body[i].id = lastAdd.q.id}
              IN  /\ outcome'[t].kind = "Ok"
                  /\ Cardinality(hits) = 1
                  /\ \A i \in hits :
                        /\ body[i].title = lastAdd.q.title
                        /\ body[i].content = lastAdd.q.content
                        /\ body[i].tags = lastAdd.q.tags
                  /\ Len(body) = lastAdd.before + (IF lastAdd.present THEN 0 ELSE 1)
      ]_vars

\* An unfiltered listing served right after an insert that overwrote a record.
C3_Witness ==
    \E t \in Tasks :
        /\ Listing(t) /\ ~Windowed(t) /\ pc[t] = "done"
        /\ lastAdd.valid /\ lastAdd.present
        /\ lastAdd.q = qA2
        /\ Len(outcome[t].body) = lastAdd.before
        /\ \E i \in 1..Len(outcome[t].body) : outcome[t].body[i] = qA2

\* The insert tasks that have completed and whose reply is not yet sent.
AddsDone == {t \in Tasks : Adding(t) /\ pc[t] = "done"}

\* C4: no insert is lost under concurrent access: the store holds the seeded
\* ids and every id inserted so far, and the completed insert tasks, when
\* their ids are pairwise distinct and new, account for as many entries
\* beyond the seeded ones as there are tasks.
C4_NoLostInsert ==
    /\ DOMAIN store = DOMAIN Seed \cup inserted
    /\ Cardinality(DOMAIN store)
           = Cardinality(DOMAIN Seed) + Cardinality(inserted \ DOMAIN Seed)
    /\ \A t \in AddsDone : req[t].question.id \in DOMAIN store
    /\ (/\ \A t, u \in AddsDone : t # u => req[t].question.id # req[u].question.id
        /\ \A t \in AddsDone : req[t].question.id \notin DOMAIN Seed)
           => Cardinality(DOMAIN store) >= Cardinality(DOMAIN Seed) + Cardinality(AddsDone)

\* Two inserts of distinct new ids have both completed, one of them granted
\* write access while the other was waiting for it.
C4_Witness ==
    \E t, u \in AddsDone :
        /\ req[t].question.id # req[u].question.id
        /\ contended[t]
        /\ {req[t].question.id, req[u].question.id} \subseteq DOMAIN store
        /\ Cardinality(DOMAIN store) = Cardinality(DOMAIN Seed) + 2

\* C5: at most one task holds write access, and while one does no task
\* holds read access; several tasks can hold read access together.
C5_WriterExcludesAll ==
    /\ Cardinality(writers) <= 1
    /\ writers # {} => readers = {}

\* Two listings hold read access at the same time.
C5_Witness ==
    /\ Cardinality(readers) >= 2
    /\ writers = {}
    /\ \A t \in readers : pc[t] = "reading"

\* C6: inserts of one id serialize: once no insert of an id holds write
\* access, the store holds for that id the whole payload of the insert that
\* was granted write access last, under that id.
C6_LastGrantedWins ==
    \A k \in DOMAIN lastGranted :
        (\A t \in writers : req[t].question.id # k) =>
            /\ k \in DOMAIN store
            /\ store[k] = lastGranted[k]
            /\ store[k].id = k

\* Two inserts of the same id with different payloads have both completed,
\* one granted write access while the other was waiting.
C6_Witness ==
    \E t, u \in AddsDone :
        /\ req[t].question.id = req[u].question.id
        /\ req[t].question # req[u].question
        /\ contended[t]
        /\ store[req[t].question.id] = lastGranted[req[t].question.id]
        /\ store[req[t].question.id] = req[u].question

\* C7: a listing whose query map is non-empty and holds neither start nor
\* end is served as a listing without a window: no error, and the reply is
\* the full snapshot.
C7_StrayKeysMeanNoWindow ==
    \A t \in Tasks :
        (/\ Listing(t) /\ Finished(t)
         /\ DOMAIN req[t].params # {}
         /\ ~Has(req[t].params, "start")
         /\ ~Has(req[t].params, "end")) =>
            /\ outcome[t].kind = "Ok"
            /\ outcome[t].body = snap[t]

\* C8: an insert whose payload has an empty id fails with InvalidQuestion
\* and leaves the store unchanged: the store never holds the empty id.
C8_EmptyIdRejected ==
    /\ "" \notin DOMAIN store
    /\ \A t \in Tasks :
          (Adding(t) /\ req[t].question.id = "" /\ Finished(t)) =>
              /\ outcome[t].kind = "Err"
              /\ outcome[t].error.kind = "InvalidQuestion"

\* Both start and end are present and parse, and end is below start.
EndBelowStart(params) ==
    /\ Has(params, "start") /\ Has(params, "end")
    /\ ParseUsize(params["start"]).ok
    /\ ParseUsize(params["end"]).ok
    /\ ParseUsize(params["end"]).val < ParseUsize(params["start"]).val

\* C9: a listing whose start and end both parse, with end < start, ends
\* with InvalidArgumentsOrder; it never waits for, holds or has held read
\* access, and it collects no snapshot.
C9_WrongOrderRejected ==
    \A t \in Tasks :
        (Listing(t) /\ EndBelowStart(req[t].params)) =>
            /\ pc[t] \in {"entry", "done"}
            /\ t \notin readers
            /\ snap[t] = <<>>
            /\ pc[t] = "done" => outcome[t] = Rejected(InvalidArgumentsOrder)

\* A listing with start = 2 and end = 1 has ended, beside a stray key.
C9_Witness ==
    \E t \in Tasks :
        /\ Listing(t) /\ pc[t] = "done"
        /\ EndBelowStart(req[t].params)
        /\ ParseUsize(req[t].params["start"]).val = 2
        /\ ParseUsize(req[t].params["end"]).val = 1
        /\ Has(req[t].params, "limit")
        /\ outcome[t].error.kind = "InvalidArgumentsOrder"

\* Exactly one of start and end is a key of the map.
OneOfTwo(params) == Has(params, "start") # Has(params, "end")

\* C10: a listing whose query map holds exactly one of start and end,
\* whatever its value and whatever other keys there are, ends with
\* MissingParameter and never reaches the store.
C10_OneKeyIsMissingParameter ==
    \A t \in Tasks :
        (Listing(t) /\ OneOfTwo(req[t].params)) =>
            /\ extract_pagination(req[t].params) = PagErr(MissingParameter)
            /\ pc[t] \in {"entry", "done"}
            /\ pc[t] = "done" => outcome[t] = Rejected(MissingParameter)

\* A listing with only end, set to a value that does not parse, and a stray
\* key has ended.
C10_Witness ==
    \E t \in Tasks :
        /\ Listing(t) /\ pc[t] = "done"
        /\ DOMAIN req[t].params = {"end", "limit"}
        /\ ~ParseUsize(req[t].params["end"]).ok
        /\ outcome[t].error.kind = "MissingParameter"

\* A decimal numeral: one or more digits, with or without one leading "+".
DecimalNumeral(s) ==
    LET d == IF s # <<>> /\ s[1] = "+" THEN Tail(s) ELSE s
    IN  /\ d # <<>>
        /\ \A i \in 1..Len(d) :
              d[i] \in {"0", "1", "2", "3", "4", "5", "6", "7", "8", "9"}

\* Both start and end are present and one of them does not parse.
ParseFails(params) ==
    /\ Has(params, "start") /\ Has(params, "end")
    /\ ~ParseUsize(params["start"]).ok \/ ~ParseUsize(params["end"]).ok

\* C11: when start and end are both present and one of them is not a
\* base-10 non-negative integer (it is no decimal numeral, or is too large
\* for usize), the listing ends with ParseError, carrying the failure of the
\* first value that does not parse; the order check is never reached, so the
\* result is neither InvalidArgumentsOrder nor a Pagination.
C11_ParseErrorFirst ==
    \A t \in Tasks :
        (/\ Listing(t)
         /\ Has(req[t].params, "start") /\ Has(req[t].params, "end")
         /\ \/ ~DecimalNumeral(req[t].params["start"])
            \/ ~DecimalNumeral(req[t].params["end"])
            \/ ParseFails(req[t].params)) =>
            LET start == ParseUsize(req[t].params["start"])
                end == ParseUsize(req[t].params["end"])
            IN  /\ ~start.ok \/ ~end.ok
                /\ pc[t] \in {"entry", "done"}
                /\ pagination[t] = NoPagination
                /\ pc[t] = "done" =>
                      /\ outcome[t].kind = "Err"
                      /\ outcome[t].error.kind = "ParseError"
                      /\ outcome[t].error.detail
                            = (IF ~start.ok THEN start.err ELSE end.err)

\* A listing has ended with ParseError although its start parses and is
\* above its end read as far as it goes: start = 7, end = -1.
C11_Witness ==
    \E t \in Tasks :
        /\ Listing(t) /\ pc[t] = "done"
        /\ Has(req[t].params, "start") /\ Has(req[t].params, "end")
        /\ req[t].params["start"] = <<"7">>
        /\ req[t].params["end"] = <<"-", "1">>
        /\ outcome[t].error = ParseError("InvalidDigit")

\* Both start and end are present and parse, and end is at least start.
ValidWindow(params) ==
    /\ Has(params, "start") /\ Has(params, "end")
    /\ ParseUsize(params["start"]).ok
    /\ ParseUsize(params["end"]).ok
    /\ ParseUsize(params["end"]).val >= ParseUsize(params["start"]).val

\* C12: the validation of a windowed listing succeeds exactly when start and
\* end are both present, both parse and end >= start; the Pagination then
\* holds the two parsed values, so a Pagination that reaches the slice has
\* start <= end.
C12_SuccessExactlyWhenValid ==
    \A t \in Tasks :
        (Listing(t) /\ Windowed(t) /\ pc[t] # "entry") =>
            /\ (outcome[t].kind # "Err") <=> ValidWindow(req[t].params)
            /\ outcome[t].kind # "Err" =>
                  /\ pagination[t].start = ParseUsize(req[t].params["start"]).val
                  /\ pagination[t].end = ParseUsize(req[t].params["end"]).val
                  /\ pagination[t].start <= pagination[t].end
            /\ pc[t] = "slice" => pagination[t].start <= pagination[t].end

\* A window with start = end = 2, written +2 and 2, has reached the slice.
C12_Witness ==
    \E t \in Tasks :
        /\ Listing(t) /\ pc[t] = "slice"
        /\ req[t].params["start"] = <<"+", "2">>
        /\ req[t].params["end"] = <<"2">>
        /\ pagination[t] = Pagination(2, 2)

\* res holds every record of the map m exactly once.
HoldsEachOnce(res, m) ==
    /\ Len(res) = Cardinality(DOMAIN m)
    /\ \A k \in DOMAIN m : Cardinality({i \in 1..Len(res) : res[i] = m[k]}) = 1

\* C13: a listing with an empty query map runs no validation and raises no
\* error: it never has a Pagination, never slices, never ends in an error or
\* a panic, and its reply is the snapshot it collects, which holds every
\* record then in the store exactly once.
C13_EmptyQueryListsAll ==
    [][\A t \in Tasks :
          (Listing(t) /\ DOMAIN req[t].params = {}) =>
              /\ pc'[t] \notin {"slice", "panicked"}
              /\ outcome'[t].kind \in {"None", "Ok"}
              /\ pagination'[t] = NoPagination
              /\ (pc[t] = "entry" /\ pc'[t] # "entry") => pc'[t] = "read_wait"
              /\ (pc[t] = "reading" /\ pc'[t] # "reading") =>
                    /\ pc'[t] = "done"
                    /\ outcome'[t] = OkJson(snap'[t])
                    /\ HoldsEachOnce(outcome'[t].body, store)
      ]_vars

\* A listing with an empty query map has replied with four records, the one
\* under the empty id among them.
C13_Witness ==
    \E t \in Tasks :
        /\ Listing(t) /\ DOMAIN req[t].params = {} /\ pc[t] = "done"
        /\ Len(outcome[t].body) = 4
        /\ \E i \in 1..4 : outcome[t].body[i] = qE
        /\ HoldsEachOnce(outcome[t].body, store)

\* The rejections return_error can be handed: the non-empty sets of causes.
AllRejections ==
    SUBSET { MissingParameter, InvalidArgumentsOrder, ParseError("Empty"),
             ParseError("InvalidDigit"), ParseError("PosOverflow"),
             MethodNotAllowed, CorsForbidden } \ {{}}

\* C14: return_error answers a rejection that carries MissingParameter,
\* ParseError or InvalidArgumentsOrder with range-not-satisfiable and the
\* text of that error, also when the rejection carries other causes; a
\* cross-origin violation with forbidden; any other rejection, those of PUT
\* and DELETE requests included, with not-found.
C14_ErrorsClassified ==
    [][\A t \in Tasks :
          (pc[t] = "done" /\ pc'[t] = "idle" /\ outcome[t].kind = "Err") =>
              LET e == outcome[t].error
                  sent == response'[t]
              IN  /\ e.kind = "MissingParameter" =>
                        sent = Response("RANGE_NOT_SATISFIABLE", <<"Missing parameter">>)
                  /\ e.kind = "InvalidArgumentsOrder" =>
                        /\ sent.status = "RANGE_NOT_SATISFIABLE"
                        /\ sent.text = ErrorText(InvalidArgumentsOrder)
                  /\ e.kind = "ParseError" =>
                        /\ sent.status = "RANGE_NOT_SATISFIABLE"
                        /\ sent.text[1] = "Cannot parse parameter: "
                        /\ sent.text[2] = ParseIntErrorText(e.detail)
                  /\ req[t].kind = "forbidden" => sent.status = "FORBIDDEN"
                  /\ req[t].kind \in {"put", "delete"} =>
                        sent = Response("NOT_FOUND", <<"Route not found">>)
                  /\ \A r \in AllRejections :
                        LET a == return_error(r)
                        IN  /\ (\E c \in r : IsError(c)) =>
                                  a.status = "RANGE_NOT_SATISFIABLE"
                            /\ (CorsForbidden \in r /\ \A c \in r : ~IsError(c)) =>
                                  a.status = "FORBIDDEN"
                            /\ (\A c \in r : ~IsError(c) /\ c # CorsForbidden) =>
                                  a.status = "NOT_FOUND"
      ]_vars

\* The reply to a listing whose start is too large for usize has been sent.
C14_Witness ==
    \E t \in Tasks :
        /\ pc[t] = "idle"
        /\ response[t] = Response("RANGE_NOT_SATISFIABLE",
                                  << "Cannot parse parameter: ",
                                     "number too large to fit in target type" >>)

\* The requests of the fair runs: an unfiltered listing, a window that lies
\* beyond a store of one record, two inserts and a request no route serves.
LiveRequests ==
    { GetRequest(NoParams),
      GetRequest(("start" :> <<"2">>) @@ ("end" :> <<"2">>)),
      AddRequest(qA1), AddRequest(qB), OtherRequest("put") }

NextLive ==
    \/ \E t \in Tasks, r \in LiveRequests : Dispatch(t, r)
    \/ \E t \in Tasks : Step(t)

\* The runtime keeps polling a task that can go on, and the lock is fair: a
\* task that waits for access and can be granted it again and again is
\* granted it.
Fairness ==
    \A t \in Tasks :
        /\ WF_vars(GetEntry(t) \/ Collect(t) \/ Slice(t) \/ Insert(t)
                      \/ Unrouted(t) \/ Retire(t))
        /\ SF_vars(AcquireRead(t))
        /\ SF_vars(AcquireWrite(t))

SpecLive == Init /\ [][NextLive]_vars /\ Fairness

\* C15: under a fair lock every dispatched request is eventually answered:
\* its task ends having sent a success response or a classified error
\* response.
C15_EveryRequestAnswered ==
    \A t \in Tasks :
        (pc[t] = "entry") ~>
            (/\ pc[t] = "idle"
             /\ response[t].status
                    \in {"OK", "RANGE_NOT_SATISFIABLE", "FORBIDDEN", "NOT_FOUND"})


\* C16: a listing, windowed or not, is computed from the store as it is at one
\* instant between its start and its end: at the step that collects the
\* records the task holds read access, no task holds write access (no insert
\* is half done), the step leaves the store alone, and the collected Vec holds
\* every record of the store of that instant exactly once; afterwards the
\* snapshot of the task stays what it was until the reply is sent.
C16_SnapshotOfOneInstant ==
    [][\A t \in Tasks :
          /\ (pc[t] = "reading" /\ pc'[t] # "reading") =>
                 /\ t \in readers
                 /\ writers = {}
                 /\ store' = store
                 /\ HoldsEachOnce(snap'[t], store)
          /\ (pc[t] \in {"slice", "done"} /\ Listing(t) /\ pc'[t] \in {"slice", "done"}) =>
                 snap'[t] = snap[t]
      ]_vars

\* A windowed listing and a listing without a window have both collected
\* their snapshots, one before and one after an insert that ran between them:
\* the two snapshots differ in size and the later one is the store of now.
C16_Witness ==
    \E t, u \in Tasks :
        /\ Listing(t) /\ Windowed(t) /\ pc[t] = "slice"
        /\ Listing(u) /\ ~Windowed(u) /\ pc[u] = "done"
        /\ lastAdd.valid /\ ~lastAdd.present
        /\ Len(snap[t]) = lastAdd.before
        /\ HoldsEachOnce(snap[u], store)
        /\ Len(snap[u]) = lastAdd.before + 1

\* C17: a listing never changes the store: every step a get_questions task
\* takes, from its validation to its reply, whether it ends in a success, an
\* empty window, a validation error or an abort, leaves the map id ->
\* Question as it was; the store changes only at the insert step of an
\* add_question task.
C17_ListingLeavesStore ==
    [][/\ \A t \in Tasks : (Listing(t) /\ pc'[t] # pc[t]) => store' = store
       /\ store' # store =>
              \E t \in Tasks : Adding(t) /\ pc[t] = "writing" /\ pc'[t] = "done"
      ]_vars

\* A windowed listing has replied with an empty window while no insert has
\* run, and the store is still the seeded one.
C17_Witness ==
    \E t \in Tasks :
        /\ Listing(t) /\ Windowed(t) /\ pc[t] = "done"
        /\ outcome[t].kind = "Ok" /\ outcome[t].body = <<>>
        /\ Len(snap[t]) = Cardinality(DOMAIN Seed)
        /\ inserted = {}
        /\ store = Seed

\* C18: the set of ids in the store only grows: no step of any task, in any
\* interleaving of listings and inserts, removes an id or makes the store
\* smaller; by induction every id of an earlier state is in every later one.
C18_IdsOnlyGrow ==
    [][/\ DOMAIN store \subseteq DOMAIN store'
       /\ Cardinality(DOMAIN store') >= Cardinality(DOMAIN store)
      ]_vars

\* Two inserts of new ids and a listing between them have run: the store
\* holds the seeded id and both new ones.
C18_Witness ==
    /\ DOMAIN Seed \subseteq DOMAIN store
    /\ inserted = {"a", "b"}
    /\ Cardinality(DOMAIN store) = Cardinality(DOMAIN Seed) + 2
    /\ lastAdd.valid /\ ~lastAdd.present
    /\ \E t \in Tasks : Listing(t) /\ pc[t] = "done"
                        /\ Len(snap[t]) = Cardinality(DOMAIN Seed) + 1

\* C19: the seeded store maps each key to a record whose id is that key, and
\* in every state reached by any sequence of inserts every key k of the store
\* maps to a record whose id is k; so no two records of the store share an id.
C19_KeyIsRecordId ==
    /\ \A k \in DOMAIN store : store[k].id = k
    /\ \A j, k \in DOMAIN store : store[j].id = store[k].id => j = k

\* Two tasks have inserted different payloads of the id "a" and another
\* insert has put the record with the empty id in: the store holds one record
\* under "a" and one under "".
C19_Witness ==
    /\ \A k \in DOMAIN Seed : Seed[k].id = k
    /\ {"a", ""} \subseteq inserted
    /\ store[""] = qE
    /\ store["a"] = qA2
    /\ lastAdd.valid /\ lastAdd.present /\ lastAdd.q = qA2
=============================================================================
